---- MODULE Spec2Model ----
(***************************************************************************)
(* Model of the round robin load balancer of the office convert client    *)
(* (client/src/load.rs): OfficeConvertLoadBalancer::convert and           *)
(* OfficeConvertLoadBalancer::is_externally_blocked, run by several        *)
(* concurrent callers on a multi-threaded runtime.  Every step that        *)
(* touches shared state (a client mutex, the active counter, the notifier, *)
(* a backend) is one action; purely local code is folded into the step     *)
(* that precedes it.  The second part models one server (src/main.rs):     *)
(* the office runner thread, the channel of capacity 1 that feeds it and   *)
(* the /convert, /collect-garbage and /status handlers.                    *)
(***************************************************************************)
EXTENDS Integers, Sequences, FiniteSets

\* ---------------------------------------------------------------- bounds

\* Largest pool handed to new_with_timing; Init draws the pool size from 0..MaxClients.
MaxClients == 2

\* Number of tasks that call convert concurrently (each calls it once).
NumCallers == 3

\* The clock (Instant::now) counts ticks 0..MaxTime.
MaxTime == 1

\* timing.retry_busy_check_after, in clock ticks.
RetryBusyCheckAfter == 1

Callers == 1..NumCallers

AllClients == 1..MaxClients

\* Owner value of a mutex nobody holds.
Unlocked == 0

\* Number of HTTP requests a server receives (each handler runs once).
NumRequests == 3

Requests == 1..NumRequests

\* let (tx, rx) = mpsc::channel(1)
ChannelCapacity == 1

\* Value of `output` while the runner converts nothing.
NoRequest == 0

VARIABLES
    total_clients,        \* inner.clients.len()
    lock,                 \* lock[s]: the caller holding the mutex of clients[s], or Unlocked
    busy_externally_at,   \* busy_externally_at[s]: {} for None, {t} for Some(t)
    active,               \* inner.active
    clock,                \* the value Instant::now() returns
    pc,                   \* pc[c]: where caller c is in convert
    index,                \* index[c]: position of the for loop of convert
    now,                  \* now[c]: the local `now` of the current iteration
    response,             \* response[c]: the local `response`
    active_counter,       \* active_counter[c]: the local `active_counter`
    externally_blocked,   \* externally_blocked[c]: the local `externally_blocked`
    ext_index,            \* ext_index[c]: position of the for loop of is_externally_blocked
    probe_result,         \* probe_result[c]: what is_busy() answered: "free", "busy", "error"
    result,               \* result[c]: what convert returned to caller c
    served,               \* served[c]: the backend conversions invoked by caller c's call
    cause,                \* cause[c]: what started the current scan pass of c
    channel,              \* the messages buffered in the mpsc::channel(1) of the runner
    permits,              \* the free capacity of the channel (its semaphore)
    senders,              \* the requests waiting in send(..).await, first come first
    runner,               \* where the office runner thread is
    output,               \* the `output` of the runner: whose conversion it runs, or NoRequest
    handler,              \* handler[r]: where the handler of request r is
    route,                \* route[r]: "convert", "collect_garbage" or "status"
    converted,            \* converted[r]: what the runner sent on the oneshot of request r
    is_busy,              \* is_busy[r]: {} before the answer, {b} for StatusResponse { is_busy: b }
    password_requested    \* runner_state.password_requested

\* The state of the server.
server == <<channel, permits, senders, runner, output, handler, route, converted, is_busy,
            password_requested>>

vars == <<total_clients, lock, busy_externally_at, active, clock, pc, index, now, response,
          active_counter, externally_blocked, ext_index, probe_result, result, served, cause,
          channel, permits, senders, runner, output, handler, route, converted, is_busy,
          password_requested>>

\* The state of the load balancer and of its callers.
balancer == <<total_clients, lock, busy_externally_at, active, clock, pc, index, now,
              response, active_counter, externally_blocked, ext_index, probe_result, result,
              served, cause>>

Clients == 1..total_clients

\* let multiple_clients = total_clients > 1;
multiple_clients == total_clients > 1

\* inner.free_notify: the tasks waiting in free_notify.notified()
free_notify == {c \in Callers : pc[c] = "wait"}

\* ------------------------------------------------------- initial state

\* new_with_timing: every client unlocked with busy_externally_at: None, active 0.
\* create_office_runner: an empty channel, the runner in blocking_recv, no request yet.
Init ==
    /\ total_clients \in 0..MaxClients
    /\ lock = [s \in AllClients |-> Unlocked]
    /\ busy_externally_at = [s \in AllClients |-> {}]
    /\ active = 0
    /\ clock = 0
    /\ pc = [c \in Callers |-> "idle"]
    /\ index = [c \in Callers |-> 0]
    /\ now = [c \in Callers |-> 0]
    /\ response = [c \in Callers |-> "none"]
    /\ active_counter = [c \in Callers |-> 0]
    /\ externally_blocked = [c \in Callers |-> FALSE]
    /\ ext_index = [c \in Callers |-> 0]
    /\ probe_result = [c \in Callers |-> "none"]
    /\ result = [c \in Callers |-> "none"]
    /\ served = [c \in Callers |-> <<>>]
    /\ cause = [c \in Callers |-> "none"]
    /\ channel = <<>>
    /\ permits = ChannelCapacity
    /\ senders = <<>>
    /\ runner = "recv"
    /\ output = NoRequest
    /\ handler = [r \in Requests |-> "idle"]
    /\ route = [r \in Requests |-> "none"]
    /\ converted = [r \in Requests |-> "none"]
    /\ is_busy = [r \in Requests |-> {}]
    /\ password_requested = FALSE

\* ------------------------------------------------------- environment

\* Time passes.
Tick ==
    /\ clock < MaxTime
    /\ clock' = clock + 1
    /\ UNCHANGED <<server, total_clients, lock, busy_externally_at, active, pc, index, now,
                   response, active_counter, externally_blocked, ext_index, probe_result,
                   result, served, cause>>

\* ------------------------------------------------------- convert: the scan

\* A task calls convert: `loop {` starts the first pass of the for loop.
Call(c) ==
    /\ pc[c] = "idle"
    /\ pc' = [pc EXCEPT ![c] = "scan"]
    /\ index' = [index EXCEPT ![c] = 1]
    /\ cause' = [cause EXCEPT ![c] = "start"]
    /\ UNCHANGED <<server, total_clients, lock, busy_externally_at, active, clock, now, response,
                   active_counter, externally_blocked, ext_index, probe_result, result,
                   served>>

\* TryLock with the try_lock result ignored: the client is taken whoever holds it.
TryLockIgnoresOwner(c) ==
    /\ pc[c] = "scan"
    /\ index[c] \in Clients
    /\ lock' = [lock EXCEPT ![index[c]] = c]
    /\ now' = [now EXCEPT ![c] = clock]
    /\ pc' = [pc EXCEPT ![c] = "locked"]
    /\ UNCHANGED <<server, total_clients, busy_externally_at, active, clock, index, response,
                   active_counter, externally_blocked, ext_index, probe_result, result,
                   served, cause>>

\* client.try_lock(): Err(_) => continue; Ok(value) => the guard, then Instant::now().
TryLock(c) ==
    /\ pc[c] = "scan"
    /\ index[c] \in Clients
    /\ \/ /\ lock[index[c]] # Unlocked
          /\ index' = [index EXCEPT ![c] = @ + 1]
          /\ UNCHANGED <<lock, now, pc>>
       \/ /\ lock[index[c]] = Unlocked
          /\ lock' = [lock EXCEPT ![index[c]] = c]
          /\ now' = [now EXCEPT ![c] = clock]
          /\ pc' = [pc EXCEPT ![c] = "locked"]
          /\ UNCHANGED index
    /\ UNCHANGED <<server, total_clients, busy_externally_at, active, clock, response,
                   active_counter, externally_blocked, ext_index, probe_result, result,
                   served, cause>>

\* BackoffSkip without `&& multiple_clients`.
BackoffSkipAnyPool(c, s) ==
    /\ busy_externally_at[s] # {}
    /\ \A t \in busy_externally_at[s] : now[c] - t < RetryBusyCheckAfter

\* since_check < inner.timing.retry_busy_check_after && multiple_clients
BackoffSkip(c, s) ==
    /\ busy_externally_at[s] # {}
    /\ \A t \in busy_externally_at[s] : now[c] - t < RetryBusyCheckAfter
    /\ multiple_clients

\* if let Some(busy_externally_at) ... { continue } (the guard is dropped), else the
\* busy check request is sent: client.client.is_busy()
CheckBackoff(c) ==
    /\ pc[c] = "locked"
    /\ IF BackoffSkip(c, index[c])
       THEN /\ lock' = [lock EXCEPT ![index[c]] = Unlocked]
            /\ index' = [index EXCEPT ![c] = @ + 1]
            /\ now' = [now EXCEPT ![c] = 0]
            /\ pc' = [pc EXCEPT ![c] = "scan"]
       ELSE /\ pc' = [pc EXCEPT ![c] = "probe"]
            /\ UNCHANGED <<lock, index, now>>
    /\ UNCHANGED <<server, total_clients, busy_externally_at, active, clock, response,
                   active_counter, externally_blocked, ext_index, probe_result, result,
                   served, cause>>

\* What is_busy() can answer: Ok(false), Ok(true) or Err(err); the backend decides.
ProbeOutcomes == {"free", "busy", "error"}

\* ProbeReturn with the guard given up while the busy check was in flight.
ProbeReturnUnlocked(c) ==
    /\ pc[c] = "probe"
    /\ \E outcome \in ProbeOutcomes : probe_result' = [probe_result EXCEPT ![c] = outcome]
    /\ pc' = [pc EXCEPT ![c] = "probed"]
    /\ lock' = [lock EXCEPT ![index[c]] = Unlocked]
    /\ UNCHANGED <<server, total_clients, busy_externally_at, active, clock, index, now,
                   response, active_counter, externally_blocked, ext_index, result, served,
                   cause>>

\* client.client.is_busy().await returns.
ProbeReturn(c) ==
    /\ pc[c] = "probe"
    /\ \E outcome \in ProbeOutcomes : probe_result' = [probe_result EXCEPT ![c] = outcome]
    /\ pc' = [pc EXCEPT ![c] = "probed"]
    /\ UNCHANGED <<server, total_clients, lock, busy_externally_at, active, clock, index, now,
                   response, active_counter, externally_blocked, ext_index, result, served,
                   cause>>

\* externally_busy with a failed busy check read as "not busy".
externally_busy_ok_only(outcome) == outcome = "busy"

\* let externally_busy = match ... { Ok(value) => value, Err(err) => true }
externally_busy(outcome) == outcome \in {"busy", "error"}

\* MarkBusy with `break` in place of `continue`: the rest of the pool is not visited.
MarkBusyBreak(c) ==
    /\ busy_externally_at' = [busy_externally_at EXCEPT ![index[c]] = {now[c]}]
    /\ lock' = [lock EXCEPT ![index[c]] = Unlocked]
    /\ index' = [index EXCEPT ![c] = total_clients + 1]
    /\ pc' = [pc EXCEPT ![c] = "scan"]
    /\ UNCHANGED <<active, served>>

\* if externally_busy { client.busy_externally_at = Some(now); continue; }
MarkBusy(c) ==
    /\ busy_externally_at' = [busy_externally_at EXCEPT ![index[c]] = {now[c]}]
    /\ lock' = [lock EXCEPT ![index[c]] = Unlocked]
    /\ index' = [index EXCEPT ![c] = @ + 1]
    /\ pc' = [pc EXCEPT ![c] = "scan"]
    /\ UNCHANGED <<active, served>>

\* StartConvert without `client.busy_externally_at = None`.
StartConvertKeepBusy(c) ==
    /\ active' = active + 1
    /\ served' = [served EXCEPT ![c] = Append(@,
                    [slot |-> index[c], holder |-> lock[index[c]],
                     probe |-> probe_result[c], out |-> "none"])]
    /\ pc' = [pc EXCEPT ![c] = "convert"]
    /\ UNCHANGED <<busy_externally_at, lock, index>>

\* client.busy_externally_at = None; inner.active.fetch_add(1, SeqCst);
\* client.client.convert(file) is sent.
StartConvert(c) ==
    /\ busy_externally_at' = [busy_externally_at EXCEPT ![index[c]] = {}]
    /\ active' = active + 1
    /\ served' = [served EXCEPT ![c] = Append(@,
                    [slot |-> index[c], holder |-> lock[index[c]],
                     probe |-> probe_result[c], out |-> "none"])]
    /\ pc' = [pc EXCEPT ![c] = "convert"]
    /\ UNCHANGED <<lock, index>>

\* The code that follows the busy check, up to the next `continue` or await.
HandleProbe(c) ==
    /\ pc[c] = "probed"
    /\ IF externally_busy(probe_result[c]) THEN MarkBusy(c) ELSE StartConvert(c)
    /\ now' = [now EXCEPT ![c] = 0]
    /\ probe_result' = [probe_result EXCEPT ![c] = "none"]
    /\ UNCHANGED <<server, total_clients, clock, response, active_counter, externally_blocked,
                   ext_index, result, cause>>

\* ------------------------------------------------------- convert: the conversion

\* The callers W start a new pass of the for loop (`continue` of the outer loop, or the
\* end of its body); `why` is what ended their pause.  Caller `self` moves to `selfpc`.
\* The locals of the pass that ended (active_counter, externally_blocked) are dead and
\* are put back to their initial values.
Rescan(W, why, self, selfpc) ==
    /\ pc' = [d \in Callers |-> IF d \in W THEN "scan" ELSE IF d = self THEN selfpc ELSE pc[d]]
    /\ index' = [d \in Callers |-> IF d \in W THEN 1 ELSE index[d]]
    /\ cause' = [d \in Callers |-> IF d \in W THEN why ELSE cause[d]]
    /\ active_counter' = [d \in Callers |-> IF d \in W THEN 0 ELSE active_counter[d]]
    /\ externally_blocked' = [d \in Callers |-> IF d \in W THEN FALSE ELSE externally_blocked[d]]

\* ConvertReturn with a failed conversion retried: the caller goes back to the scan.
ConvertReturnRetry(c) ==
    /\ pc[c] = "convert"
    /\ \E r \in {"ok", "err"} :
          /\ response' = [response EXCEPT ![c] = r]
          /\ served' = [served EXCEPT ![c] = [@ EXCEPT ![Len(served[c])].out = r]]
          /\ IF r = "err"
             THEN /\ Rescan(free_notify, "notify", c, "scan")
                  /\ lock' = [lock EXCEPT ![index[c]] = Unlocked]
                  /\ active' = active - 1
             ELSE /\ Rescan(free_notify, "notify", c, "dec")
                  /\ UNCHANGED <<lock, active>>
    /\ UNCHANGED <<server, total_clients, busy_externally_at, clock, now, ext_index, probe_result,
                   result>>

\* let response = client.client.convert(file).await; then
\* inner.free_notify.notify_waiters(): every task waiting in notified() is woken.
ConvertReturn(c) ==
    /\ pc[c] = "convert"
    /\ \E r \in {"ok", "err"} :
          /\ response' = [response EXCEPT ![c] = r]
          /\ served' = [served EXCEPT ![c] = [@ EXCEPT ![Len(served[c])].out = r]]
    /\ Rescan(free_notify, "notify", c, "dec")
    /\ UNCHANGED <<server, total_clients, lock, busy_externally_at, active, clock, now, ext_index,
                   probe_result, result>>

\* FetchSub skipped when the conversion failed (an early return of the error).
FetchSubOnlyOk(c) ==
    /\ pc[c] = "dec"
    /\ active' = IF response[c] = "err" THEN active ELSE active - 1
    /\ pc' = [pc EXCEPT ![c] = "ret"]
    /\ UNCHANGED <<server, total_clients, lock, busy_externally_at, clock, index, now, response,
                   active_counter, externally_blocked, ext_index, probe_result, result,
                   served, cause>>

\* inner.active.fetch_sub(1, SeqCst)
FetchSub(c) ==
    /\ pc[c] = "dec"
    /\ active' = active - 1
    /\ pc' = [pc EXCEPT ![c] = "ret"]
    /\ UNCHANGED <<server, total_clients, lock, busy_externally_at, clock, index, now, response,
                   active_counter, externally_blocked, ext_index, probe_result, result,
                   served, cause>>

\* return response; the guard of the client is dropped.
Return(c) ==
    /\ pc[c] = "ret"
    /\ lock' = [lock EXCEPT ![index[c]] = Unlocked]
    /\ result' = [result EXCEPT ![c] = response[c]]
    /\ pc' = [pc EXCEPT ![c] = "done"]
    /\ UNCHANGED <<server, total_clients, busy_externally_at, active, clock, index, now, response,
                   active_counter, externally_blocked, ext_index, probe_result, served,
                   cause>>

\* ------------------------------------------------------- convert: scan exhausted

\* The for loop ends: let active_counter = inner.active.load(SeqCst); then
\* self.is_externally_blocked() is entered.
LoadActive(c) ==
    /\ pc[c] = "scan"
    /\ index[c] > total_clients
    /\ active_counter' = [active_counter EXCEPT ![c] = active]
    /\ ext_index' = [ext_index EXCEPT ![c] = 1]
    /\ pc' = [pc EXCEPT ![c] = "ext"]
    /\ UNCHANGED <<server, total_clients, lock, busy_externally_at, active, clock, index, now,
                   response, externally_blocked, probe_result, result, served, cause>>

\* PollSleep without the test of the counter: if externally_blocked
PollSleepBlockedOnly(blocked, counter) == blocked

\* if externally_blocked || active_counter < 1 (sleep, then `continue`)
PollSleep(blocked, counter) == blocked \/ counter < 1

\* is_externally_blocked returns `value`; convert then either sleeps for
\* retry_single_external or waits in timeout(notify_timeout, free_notify.notified()).
ExtReturn(c, value) ==
    /\ externally_blocked' = [externally_blocked EXCEPT ![c] = value]
    /\ ext_index' = [ext_index EXCEPT ![c] = 0]
    /\ pc' = [pc EXCEPT ![c] = IF PollSleep(value, active_counter[c]) THEN "sleep" ELSE "wait"]

\* ExtLock that marks the client it acquired as externally busy.
ExtLockMarksBusy(c) ==
    /\ pc[c] = "ext"
    /\ ext_index[c] \in Clients
    /\ lock[ext_index[c]] = Unlocked
    /\ lock' = [lock EXCEPT ![ext_index[c]] = c]
    /\ busy_externally_at' = [busy_externally_at EXCEPT ![ext_index[c]] = {clock}]
    /\ pc' = [pc EXCEPT ![c] = "extheld"]
    /\ UNCHANGED <<server, total_clients, active, clock, index, now, response,
                   active_counter, externally_blocked, ext_index, probe_result, result,
                   served, cause>>

\* timeout(Duration::from_secs(1), client.lock()): Ok(value) => the guard
ExtLock(c) ==
    /\ pc[c] = "ext"
    /\ ext_index[c] \in Clients
    /\ lock[ext_index[c]] = Unlocked
    /\ lock' = [lock EXCEPT ![ext_index[c]] = c]
    /\ pc' = [pc EXCEPT ![c] = "extheld"]
    /\ UNCHANGED <<server, total_clients, busy_externally_at, active, clock, index, now, response,
                   active_counter, externally_blocked, ext_index, probe_result, result,
                   served, cause>>

\* ExtTimeout with the contended client skipped instead of `return false`.
ExtTimeoutSkip(c) ==
    /\ pc[c] = "ext"
    /\ ext_index[c] \in Clients
    /\ lock[ext_index[c]] # Unlocked
    /\ ext_index' = [ext_index EXCEPT ![c] = @ + 1]
    /\ UNCHANGED <<server, total_clients, lock, busy_externally_at, active, clock, pc, index, now,
                   response, active_counter, externally_blocked, probe_result, result,
                   served, cause>>

\* ExtTimeout of an acquisition that has no timeout: client.lock().await
ExtTimeoutNever(c) ==
    /\ pc[c] = "ext"
    /\ FALSE
    /\ UNCHANGED vars

\* timeout(Duration::from_secs(1), client.lock()): Err(_) => return false
ExtTimeout(c) ==
    /\ pc[c] = "ext"
    /\ ext_index[c] \in Clients
    /\ lock[ext_index[c]] # Unlocked
    /\ ExtReturn(c, FALSE)
    /\ UNCHANGED <<server, total_clients, lock, busy_externally_at, active, clock, index, now,
                   response, active_counter, probe_result, result, served, cause>>

\* ExtInspect with the guard leaked by `return false`: the client stays locked.
ExtInspectKeepsGuard(c) ==
    /\ pc[c] = "extheld"
    /\ IF busy_externally_at[ext_index[c]] = {}
       THEN /\ ExtReturn(c, FALSE)
            /\ UNCHANGED lock
       ELSE /\ lock' = [lock EXCEPT ![ext_index[c]] = Unlocked]
            /\ ext_index' = [ext_index EXCEPT ![c] = @ + 1]
            /\ pc' = [pc EXCEPT ![c] = "ext"]
            /\ UNCHANGED externally_blocked
    /\ UNCHANGED <<server, total_clients, busy_externally_at, active, clock, index, now, response,
                   active_counter, probe_result, result, served, cause>>

\* if client.busy_externally_at.is_none() { return false }; the guard is dropped at the
\* end of the iteration (or by the return).
ExtInspect(c) ==
    /\ pc[c] = "extheld"
    /\ lock' = [lock EXCEPT ![ext_index[c]] = Unlocked]
    /\ IF busy_externally_at[ext_index[c]] = {}
       THEN ExtReturn(c, FALSE)
       ELSE /\ ext_index' = [ext_index EXCEPT ![c] = @ + 1]
            /\ pc' = [pc EXCEPT ![c] = "ext"]
            /\ UNCHANGED externally_blocked
    /\ UNCHANGED <<server, total_clients, busy_externally_at, active, clock, index, now, response,
                   active_counter, probe_result, result, served, cause>>

\* The for loop of is_externally_blocked ends: true
ExtEnd(c) ==
    /\ pc[c] = "ext"
    /\ ext_index[c] > total_clients
    /\ ExtReturn(c, TRUE)
    /\ UNCHANGED <<server, total_clients, lock, busy_externally_at, active, clock, index, now,
                   response, active_counter, probe_result, result, served, cause>>

\* sleep(inner.timing.retry_single_external).await is over; continue
SleepDone(c) ==
    /\ pc[c] = "sleep"
    /\ Rescan({c}, "sleep", c, "scan")
    /\ UNCHANGED <<server, total_clients, lock, busy_externally_at, active, clock, now, response,
                   ext_index, probe_result, result, served>>

\* NotifyTimeout of a wait that has no timeout: free_notify.notified().await
NotifyTimeoutNever(c) ==
    /\ pc[c] = "wait"
    /\ FALSE
    /\ UNCHANGED vars

\* timeout(inner.timing.notify_timeout, ...) elapses without a notification
NotifyTimeout(c) ==
    /\ pc[c] = "wait"
    /\ Rescan({c}, "timeout", c, "scan")
    /\ UNCHANGED <<server, total_clients, lock, busy_externally_at, active, clock, now, response,
                   ext_index, probe_result, result, served>>

\* ------------------------------------------------------- specification

Step(c) ==
    \/ Call(c)
    \/ TryLock(c)
    \/ CheckBackoff(c)
    \/ ProbeReturn(c)
    \/ HandleProbe(c)
    \/ ConvertReturn(c)
    \/ FetchSub(c)
    \/ Return(c)
    \/ LoadActive(c)
    \/ ExtLock(c)
    \/ ExtTimeout(c)
    \/ ExtInspect(c)
    \/ ExtEnd(c)
    \/ SleepDone(c)
    \/ NotifyTimeout(c)

Next ==
    \/ \E c \in Callers : Step(c)
    \/ Tick

Spec == Init /\ [][Next]_vars

\* Number of callers that run under FairSpec.
LiveCallers == 2

FairNext ==
    \/ \E c \in 1..LiveCallers : Step(c)
    \/ Tick

\* Fair scheduling: the runtime polls every task that can make progress, a sleep and a
\* timeout elapse, every backend call returns, and time passes.
FairSpec ==
    /\ Init
    /\ [][FairNext]_vars
    /\ \A c \in 1..LiveCallers : WF_vars(Step(c))
    /\ WF_vars(Tick)

\* ------------------------------------------------------- dropped calls

\* Number of callers that run under CancelSpec.
CancelCallers == 2

\* The await points of convert and is_externally_blocked: is_busy().await,
\* convert(file).await, timeout(.., client.lock()).await, sleep(..).await and
\* timeout(.., free_notify.notified()).await.
Suspended == {"probe", "convert", "ext", "sleep", "wait"}

\* The future of convert is dropped at an await point (the task is aborted, a timeout
\* or a select around the call fires): its locals are dropped, the guard of the client
\* it holds with them, and none of the code that follows the await runs.
Cancel(c) ==
    /\ pc[c] \in Suspended
    /\ pc' = [pc EXCEPT ![c] = "dropped"]
    /\ lock' = [s \in AllClients |-> IF lock[s] = c THEN Unlocked ELSE lock[s]]
    /\ UNCHANGED <<server, total_clients, busy_externally_at, active, clock, index, now,
                   response, active_counter, externally_blocked, ext_index, probe_result,
                   result, served, cause>>

CancelNext ==
    \/ \E c \in 1..CancelCallers : Step(c) \/ Cancel(c)
    \/ Tick

\* The calls of Spec, each of which may be dropped at any of its await points.
CancelSpec == Init /\ [][CancelNext]_vars

\* ------------------------------------------------------- the server

\* .route("/convert", ..), .route("/collect-garbage", ..), .route("/status", ..)
Routes == {"convert", "collect_garbage", "status"}

\* pub enum OfficeMsg { Convert { bytes, tx }, CollectGarbage, BusyCheck }; `tx` is the
\* request whose oneshot sender the message carries.
OfficeMsg(kind, r) == [msg |-> kind, tx |-> IF kind = "Convert" THEN r ELSE NoRequest]

\* Where the handler of a route goes once its message is in the channel: /convert
\* awaits the oneshot (rx.await), /collect-garbage answers StatusCode::OK.
AfterSend(kind) == IF kind = "Convert" THEN "await" ELSE "done"

\* office.0.send(msg).await: the message is buffered if the channel has capacity,
\* otherwise the handler queues for a permit.
Send(r, kind) ==
    IF permits > 0
    THEN /\ permits' = permits - 1
         /\ channel' = Append(channel, OfficeMsg(kind, r))
         /\ handler' = [handler EXCEPT ![r] = AfterSend(kind)]
         /\ UNCHANGED senders
    ELSE /\ senders' = Append(senders, r)
         /\ handler' = [handler EXCEPT ![r] = "send"]
         /\ UNCHANGED <<permits, channel>>

\* POST /convert: office.0.send(OfficeMsg::Convert { bytes, tx }).await
ConvertRequest(r) ==
    /\ handler[r] = "idle"
    /\ route' = [route EXCEPT ![r] = "convert"]
    /\ Send(r, "Convert")
    /\ UNCHANGED <<balancer, password_requested, runner, output, converted, is_busy>>

\* POST /collect-garbage: _ = office.0.send(OfficeMsg::CollectGarbage).await
CollectGarbageRequest(r) ==
    /\ handler[r] = "idle"
    /\ route' = [route EXCEPT ![r] = "collect_garbage"]
    /\ Send(r, "CollectGarbage")
    /\ UNCHANGED <<balancer, password_requested, runner, output, converted, is_busy>>

\* A handler that waited in send(..).await was handed the permit: it buffers its message.
SendGranted(r) ==
    /\ handler[r] = "granted"
    /\ LET kind == IF route[r] = "convert" THEN "Convert" ELSE "CollectGarbage"
       IN /\ channel' = Append(channel, OfficeMsg(kind, r))
          /\ handler' = [handler EXCEPT ![r] = AfterSend(kind)]
    /\ UNCHANGED <<balancer, password_requested, permits, senders, runner, output, route, converted, is_busy>>

\* let converted = rx.await; the response is built and returned.
ConvertResponse(r) ==
    /\ handler[r] = "await"
    /\ converted[r] # "none"
    /\ handler' = [handler EXCEPT ![r] = "done"]
    /\ UNCHANGED <<balancer, password_requested, channel, permits, senders, runner, output, route, converted,
                   is_busy>>

\* GET /status: let is_locked = office.0.try_send(OfficeMsg::BusyCheck).is_err();
\* try_send fails when the channel has no free capacity, otherwise BusyCheck is buffered.
Status(r) ==
    /\ handler[r] = "idle"
    /\ route' = [route EXCEPT ![r] = "status"]
    /\ IF permits > 0
       THEN /\ permits' = permits - 1
            /\ channel' = Append(channel, OfficeMsg("BusyCheck", r))
            /\ is_busy' = [is_busy EXCEPT ![r] = {FALSE}]
       ELSE /\ is_busy' = [is_busy EXCEPT ![r] = {TRUE}]
            /\ UNCHANGED <<permits, channel>>
    /\ handler' = [handler EXCEPT ![r] = "done"]
    /\ UNCHANGED <<balancer, password_requested, senders, runner, output, converted>>

\* What the runner does with a message: Convert => convert_document, CollectGarbage =>
\* office.trim_memory(2000), BusyCheck => continue.
Dispatch(kind) ==
    CASE kind = "Convert" -> "convert"
      [] kind = "CollectGarbage" -> "trim"
      [] kind = "BusyCheck" -> "recv"

\* while let Some(msg) = rx.blocking_recv(): the runner takes the buffered message; the
\* capacity it frees goes to the first handler waiting in send, if there is one.
RunnerRecv ==
    /\ runner = "recv"
    /\ channel # <<>>
    /\ channel' = Tail(channel)
    /\ IF senders # <<>>
       THEN /\ senders' = Tail(senders)
            /\ handler' = [handler EXCEPT ![Head(senders)] = "granted"]
            /\ UNCHANGED permits
       ELSE /\ permits' = permits + 1
            /\ UNCHANGED <<senders, handler>>
    /\ runner' = Dispatch(Head(channel).msg)
    /\ output' = Head(channel).tx
    /\ UNCHANGED <<balancer, password_requested, route, converted, is_busy>>

\* office.trim_memory(2000) returns; continue
TrimMemory ==
    /\ runner = "trim"
    /\ runner' = "recv"
    /\ UNCHANGED <<balancer, password_requested, channel, permits, senders, output, handler, route, converted,
                   is_busy>>

\* The callback registered with the office runs during a conversion:
\* if let CallbackType::DocumentPassword = ty { state.password_requested = true; .. }
DocumentPassword ==
    /\ runner = "convert"
    /\ ~password_requested
    /\ password_requested' = TRUE
    /\ UNCHANGED <<balancer, channel, permits, senders, runner, output, handler, route,
                   converted, is_busy>>

\* ConvertDocument without `*runner_state.lock() = RunnerState::default()`.
ConvertDocumentNoReset ==
    /\ runner = "convert"
    /\ \E r \in {"ok", "err"} : converted' = [converted EXCEPT ![output] = r]
    /\ output' = NoRequest
    /\ runner' = "recv"
    /\ UNCHANGED <<balancer, password_requested, channel, permits, senders, handler, route,
                   is_busy>>

\* convert_document returns; _ = output.send(result); the runner state is reset
\* (*runner_state.lock() = RunnerState::default()) and the loop goes back to
\* blocking_recv.
ConvertDocument ==
    /\ runner = "convert"
    /\ \E r \in {"ok", "err"} : converted' = [converted EXCEPT ![output] = r]
    /\ output' = NoRequest
    /\ password_requested' = FALSE
    /\ runner' = "recv"
    /\ UNCHANGED <<balancer, channel, permits, senders, handler, route, is_busy>>

ServerNext ==
    \/ \E r \in Requests :
          \/ ConvertRequest(r)
          \/ CollectGarbageRequest(r)
          \/ SendGranted(r)
          \/ ConvertResponse(r)
          \/ Status(r)
    \/ RunnerRecv
    \/ TrimMemory
    \/ DocumentPassword
    \/ ConvertDocument

\* One server: its runner thread and the handlers of NumRequests requests.
ServerSpec == Init /\ [][ServerNext]_vars

\* The runner thread keeps running: blocking_recv returns when a message is buffered,
\* and trim_memory and convert_document return.
FairServerSpec ==
    /\ Init
    /\ [][ServerNext]_vars
    /\ WF_vars(RunnerRecv)
    /\ WF_vars(TrimMemory)
    /\ WF_vars(ConvertDocument)

\* ------------------------------------------------------- properties

\* Caller c is inside a backend call (the busy check or the conversion) of clients[s].
InBackend(c, s) == pc[c] \in {"probe", "convert"} /\ index[c] = s

\* Caller c is inside the backend conversion call of clients[s].
InConversion(c, s) == pc[c] = "convert" /\ index[c] = s

\* C1: mutual exclusion. For every client of the pool at most one caller is inside its
\* busy check or its conversion, and a caller inside either holds the client's lock.
C1_MutualExclusion ==
    \A s \in Clients : \A c \in Callers :
        InBackend(c, s) =>
            /\ lock[s] = c
            /\ \A d \in Callers \ {c} : ~InBackend(d, s)

\* Two callers convert at the same time, each on its own client.
C1_Witness ==
    \E c, d \in Callers :
        /\ c # d
        /\ InConversion(c, 1)
        /\ InConversion(d, 2)

\* C2: with an empty pool convert returns NoServers at once: the caller reaches no
\* sleep, no wait on the notifier and no second pass before it returns.
C2_NoServersAtOnce ==
    total_clients = 0 =>
        \A c \in Callers :
            /\ pc[c] \notin {"sleep", "wait"}
            /\ cause[c] \in {"none", "start"}
            /\ pc[c] = "done" => result[c] = "NoServers"

\* C4: on a pool that is not empty, a call that has returned invoked the backend
\* conversion exactly once, on a client it held and whose busy check answered free;
\* it returned that conversion's result; no call invokes a second conversion, and once
\* it has invoked one it only completes it and returns.
C4_ReturnsItsOneConversion ==
    \A c \in Callers :
        /\ Len(served[c]) <= 1
        /\ Len(served[c]) = 1 =>
              /\ pc[c] \in {"convert", "dec", "ret", "done"}
              /\ served[c][1].holder = c
              /\ served[c][1].probe = "free"
              /\ served[c][1].slot = index[c]
        /\ (total_clients >= 1 /\ pc[c] = "done") =>
              /\ Len(served[c]) = 1
              /\ result[c] \in {"ok", "err"}
              /\ result[c] = served[c][1].out

\* A call returned the error of its conversion on the first client of a pool of two.
C4_Witness ==
    \E c \in Callers :
        /\ total_clients = 2
        /\ pc[c] = "done"
        /\ result[c] = "err"
        /\ served[c][1].slot = 1

\* The clients whose holder is inside the backend conversion call.
Converting == {s \in Clients : \E c \in Callers : lock[s] = c /\ InConversion(c, s)}

\* The callers whose conversion has returned and whose fetch_sub is the next step.
AtDecrement == {c \in Callers : pc[c] = "dec"}

\* C5: the active counter equals the number of clients whose holder is inside the
\* conversion call, but for the callers that stand at the atomic decrement itself; it
\* is never negative and never more than the pool size.
C5_ActiveCounter ==
    /\ active = Cardinality(Converting) + Cardinality(AtDecrement)
    /\ AtDecrement = {} => active = Cardinality(Converting)
    /\ active >= 0
    /\ active <= total_clients

\* Two conversions are in progress and counted.
C5_Witness ==
    /\ Cardinality(Converting) = 2
    /\ active = 2

\* C6: when a call that executed a conversion releases its client and returns, the
\* counter holds nothing of that call (it counts the other callers' conversions only)
\* and the busy_externally_at of the client it executed on is None.
C6_AfterConversion ==
    \A c \in Callers :
        (pc[c] \in {"ret", "done"} /\ served[c] # <<>>) =>
            /\ active = Cardinality({d \in Callers \ {c} : pc[d] \in {"convert", "dec"}})
            /\ pc[c] = "ret" =>
                  /\ lock[index[c]] = c
                  /\ busy_externally_at[index[c]] = {}

\* A call whose conversion failed is about to release its client.
C6_Witness ==
    \E c \in Callers :
        /\ pc[c] = "ret"
        /\ response[c] = "err"
        /\ active = 0

\* Caller c is inside is_externally_blocked.
InExt(c) == pc[c] \in {"ext", "extheld"}

\* This step is the return of caller c's is_externally_blocked.
ExtReturns(c) == InExt(c) /\ pc'[c] \in {"sleep", "wait"}

\* C7: is_externally_blocked visits the clients in pool order from the first one; it
\* moves past a client only when it acquired it and found busy_externally_at set; it
\* returns true exactly when it has moved past every client (at once for an empty
\* pool), and it returns false at the first client whose acquisition timed out or
\* whose busy_externally_at it found unset.
C7_ExternallyBlocked ==
    [][\A c \in Callers :
        /\ (pc[c] = "scan" /\ InExt(c)') => ext_index'[c] = 1
        /\ (InExt(c) /\ InExt(c)' /\ <<pc[c], ext_index[c]>>' # <<pc[c], ext_index[c]>>) =>
              \/ /\ ext_index'[c] = ext_index[c]
                 /\ pc[c] = "ext"
                 /\ ext_index[c] \in Clients
                 /\ lock[ext_index[c]] = Unlocked
                 /\ lock'[ext_index[c]] = c
              \/ /\ ext_index'[c] = ext_index[c] + 1
                 /\ pc[c] = "extheld"
                 /\ lock[ext_index[c]] = c
                 /\ busy_externally_at[ext_index[c]] # {}
        /\ ExtReturns(c) =>
              /\ externally_blocked'[c] = (ext_index[c] > total_clients)
              /\ ext_index[c] <= total_clients =>
                    \/ pc[c] = "ext" /\ lock[ext_index[c]] \notin {Unlocked, c}
                    \/ /\ pc[c] = "extheld"
                       /\ lock[ext_index[c]] = c
                       /\ busy_externally_at[ext_index[c]] = {}
        /\ (pc[c] = "extheld" /\ busy_externally_at[ext_index[c]] = {} /\ pc'[c] # pc[c]) =>
              ExtReturns(c)
        /\ (pc[c] = "ext" /\ ext_index[c] <= total_clients /\ pc'[c] # pc[c]
              /\ lock[ext_index[c]] # Unlocked) => ExtReturns(c)
      ]_vars

\* is_externally_blocked returned true on a pool of two, and false on another call.
C7_Witness ==
    \E c, d \in Callers :
        /\ total_clients = 2
        /\ pc[c] = "sleep"
        /\ externally_blocked[c]
        /\ pc[d] = "wait"
        /\ ~externally_blocked[d]

\* C8: a failed busy check is handled like one that answers busy: busy_externally_at
\* of the client becomes the `now` of the iteration, the client is released, no
\* conversion is started on it and the scan goes on with the next client. What a call
\* returns is the result of a conversion, never a busy check's error or answer.
C8_ProbeFailureIsBusy ==
    /\ [][\A c \in Callers :
            (pc[c] = "probed" /\ probe_result[c] \in {"busy", "error"} /\ pc'[c] # "probed") =>
                /\ busy_externally_at'[index[c]] = {now[c]}
                /\ lock'[index[c]] = Unlocked
                /\ pc'[c] = "scan"
                /\ index'[c] = index[c] + 1
                /\ served' = served
                /\ active' = active
                /\ result' = result
         ]_vars
    /\ [](\A c \in Callers :
            /\ result[c] \in {"none", "ok", "err"}
            /\ result[c] # "none" => (served[c] # <<>> /\ result[c] = served[c][1].out))

\* The busy check of a client has failed while the clock moved on since the iteration's
\* Instant::now().
C8_Witness ==
    \E c \in Callers :
        /\ pc[c] = "probed"
        /\ probe_result[c] = "error"
        /\ now[c] < clock

\* C9: pool [A, B], both clients locked by conversions in flight, neither marked busy.
\* A caller that waited on the notifier and was woken by a holder's completion does
\* not sleep or wait again on the pass that follows: it takes the freed client. (The
\* other callers are the two holders, converting or finished: nobody else scans.)
C9_WokenCallerGetsFreedClient ==
    \A c \in Callers :
        ( /\ total_clients = 2
          /\ cause[c] = "notify"
          /\ \A s \in Clients : busy_externally_at[s] = {}
          /\ \A d \in Callers \ {c} :
                pc[d] \in {"convert", "dec", "ret", "done"} /\ served[d] # <<>> )
        => pc[c] \notin {"sleep", "wait"}

\* Caller c is the only task that has called convert so far.
OnlyCaller(c) == \A d \in Callers \ {c} : pc[d] = "idle"

\* Caller c has run through the whole pool without converting.
Exhausted(c) ==
    \/ pc[c] = "scan" /\ index[c] > total_clients
    \/ pc[c] \in {"ext", "extheld", "sleep", "wait"}

Pending(c) == pc[c] \notin {"idle", "done"}

\* clients[s] is a client of the pool that nobody holds.
Free(s) == s \in Clients /\ lock[s] = Unlocked

Held(c) == {s \in AllClients : lock[s] = c}

\* Caller c sleeps for retry_single_external or waits on the notifier.
Paused(c) == pc[c] \in {"sleep", "wait"}

\* Caller c was dropped while it was paused (the scan was over and
\* is_externally_blocked had returned).
DroppedPaused(c) == pc[c] = "dropped" /\ index[c] > total_clients /\ ext_index[c] = 0

\* C11: a caller that sleeps for retry_single_external or waits on the notifier holds
\* no client lock; so dropping a call while it sleeps or waits leaves every lock, every
\* busy_externally_at and the active counter as they were.
C11_PausedHoldsNoLock ==
    /\ [](\A c \in Callers : Paused(c) => Held(c) = {})
    /\ [][\A c \in Callers :
            (Paused(c) /\ pc'[c] = "dropped") =>
                /\ lock' = lock
                /\ busy_externally_at' = busy_externally_at
                /\ active' = active
         ]_vars

\* A call was dropped while it waited on the notifier, another call converts.
C11_Witness ==
    \E c, d \in Callers :
        /\ DroppedPaused(c)
        /\ ~PollSleep(externally_blocked[c], active_counter[c])
        /\ pc[d] = "convert"
        /\ Held(d) # {}

\* This step is the handler of request r answering GET /status.
StatusAnswers(r) == handler[r] = "idle" /\ handler'[r] = "done" /\ route'[r] = "status"

\* The office runner has a conversion in hand: it runs convert_document, or a Convert
\* message is buffered for it.
RunnerConverting ==
    \/ runner = "convert"
    \/ \E i \in 1..Len(channel) : channel[i].msg = "Convert"

\* C12: GET /status answers is_busy = true exactly when the office runner is converting
\* a document at that moment (true all through a conversion, false when the runner is
\* idle), whatever convert, collect-garbage and status requests came before.
C12_StatusIffConverting ==
    [][\A r \in Requests : StatusAnswers(r) => is_busy'[r] = {RunnerConverting}]_vars

\* C13: when the scan is exhausted the caller sleeps for retry_single_external exactly
\* when is_externally_blocked returned true or the active counter it read was 0, and
\* otherwise waits on the notifier. So a waiting caller read a counter of at least 1,
\* and while no conversion was ever started (both clients of [A, B] answer busy) no
\* caller waits on the notifier.
C13_PollSleepOrWait ==
    /\ [][\A c \in Callers :
            ExtReturns(c) =>
                /\ pc'[c] = "sleep" <=> (externally_blocked'[c] \/ active_counter[c] = 0)
                /\ pc'[c] = "wait" <=> (~externally_blocked'[c] /\ active_counter[c] >= 1)
                /\ active_counter'[c] = active_counter[c]
         ]_vars
    /\ [](\A c \in Callers :
            /\ pc[c] = "wait" => (active_counter[c] >= 1 /\ ~externally_blocked[c])
            /\ pc[c] = "sleep" => (active_counter[c] = 0 \/ externally_blocked[c])
            /\ (\A d \in Callers : served[d] = <<>>) => pc[c] # "wait")

\* Pool [A, B], both marked busy, nothing converting: a caller found itself externally
\* blocked and sleeps, and another one, whose is_externally_blocked gave false on a
\* held client, sleeps too because the counter it read was 0.
C13_Witness ==
    \E c, d \in Callers :
        /\ total_clients = 2
        /\ \A s \in Clients : busy_externally_at[s] # {}
        /\ active = 0
        /\ pc[c] = "sleep" /\ externally_blocked[c]
        /\ pc[d] = "sleep" /\ ~externally_blocked[d] /\ active_counter[d] = 0

\* This step wakes a caller that waited on the notifier by notify_waiters().
WakesWaiter == \E d \in Callers : pc[d] = "wait" /\ pc'[d] = "scan" /\ cause'[d] = "notify"

\* C14: the holder decrements the active counter before it fires notify_waiters, so
\* whenever a waiter is woken by a completion the counter no longer counts the
\* completed conversion: it counts the conversions still in progress.
C14_DecrementBeforeNotify ==
    [][WakesWaiter => (active' = Cardinality(Converting') /\ AtDecrement' = {})]_vars

\* busy_externally_at of clients[s] is set and less than retry_busy_check_after before
\* the `now` of caller c.
InBackoff(c, s) ==
    /\ busy_externally_at[s] # {}
    /\ \A t \in busy_externally_at[s] : now[c] - t < RetryBusyCheckAfter

\* C15: a client acquired by the scan while it is in backoff is released without a busy
\* check exactly when the pool has more than one client; with a pool of one every
\* acquisition is followed by the busy check; a client that is not in backoff (no
\* busy_externally_at, or retry_busy_check_after has elapsed) is always checked.
C15_BackoffNeedsSeveralClients ==
    [][\A c \in Callers :
        (pc[c] = "locked" /\ pc'[c] # "locked") =>
            /\ pc'[c] \in {"scan", "probe"}
            /\ pc'[c] = "scan" <=> (InBackoff(c, index[c]) /\ total_clients > 1)
            /\ pc'[c] = "scan" =>
                  (lock'[index[c]] = Unlocked /\ index'[c] = index[c] + 1)
            /\ pc'[c] = "probe" => (lock'[index[c]] = c /\ index'[c] = index[c])
            /\ total_clients = 1 => pc'[c] = "probe"
            /\ ~InBackoff(c, index[c]) => pc'[c] = "probe"
      ]_vars

\* On a pool of one the busy check runs on a client that is in backoff.
C15_Witness ==
    \E c \in Callers :
        /\ total_clients = 1
        /\ pc[c] = "probe"
        /\ InBackoff(c, 1)

\* C16: a caller that waits on the notifier always goes back to the scan, by the
\* notify_timeout at the latest: the timeout is armed in every state in which it waits,
\* whether or not notify_waiters is ever called, also when the only completion fired
\* before the caller registered as a waiter.
C16_BoundedRescan ==
    /\ [](\A c \in Callers : pc[c] = "wait" => ENABLED NotifyTimeout(c))
    /\ \A c \in Callers : (pc[c] = "wait") ~> (pc[c] = "scan")

\* A caller is back in the scan by the timeout: the conversion it had seen in flight
\* completed before it waited, and no call is left that could notify.
C16_Witness ==
    \E c \in Callers :
        /\ pc[c] = "scan"
        /\ cause[c] = "timeout"
        /\ active = 0
        /\ \A d \in Callers \ {c} : pc[d] \in {"idle", "done"}
        /\ \E d \in Callers \ {c} : pc[d] = "done"

\* Caller c is about to try a client lock: try_lock in the scan, or lock() under the
\* timeout in is_externally_blocked.
Acquiring(c) ==
    \/ pc[c] = "scan" /\ index[c] \in Clients
    \/ pc[c] = "ext" /\ ext_index[c] \in Clients

\* C17: no deadlock on the client locks. A caller holds at most one lock, a caller that
\* tries to acquire a lock holds none, and it is never blocked by the holder: the scan
\* skips a held client and is_externally_blocked gives up after its timeout. So every
\* call that has not returned can take a step, whatever the others hold.
C17_DeadlockFree ==
    \A c \in Callers :
        /\ Cardinality(Held(c)) <= 1
        /\ Acquiring(c) => Held(c) = {}
        /\ Pending(c) => ENABLED Step(c)

\* Two callers try to acquire clients that two other holders have locked: one in the
\* scan, one in is_externally_blocked.
C17_Witness ==
    \E c, d \in Callers :
        /\ pc[c] = "scan" /\ index[c] \in Clients /\ lock[index[c]] \notin {Unlocked, c}
        /\ pc[d] = "ext" /\ ext_index[d] \in Clients /\ lock[ext_index[d]] \notin {Unlocked, d}

\* C18: busy_externally_at of a client is read and written only by the caller that
\* holds the client's lock; it is set (to the caller's `now`) only after a busy check
\* that answered busy or failed, and cleared only after one that answered free.
C18_BusySinceUnderLock ==
    /\ [](\A c \in Callers :
            /\ pc[c] \in {"locked", "probe", "probed"} => lock[index[c]] = c
            /\ pc[c] = "extheld" => lock[ext_index[c]] = c)
    /\ [][\A s \in Clients :
            busy_externally_at'[s] # busy_externally_at[s] =>
                \E c \in Callers :
                    /\ lock[s] = c
                    /\ pc[c] = "probed"
                    /\ index[c] = s
                    /\ pc'[c] # "probed"
                    /\ IF probe_result[c] \in {"busy", "error"}
                       THEN busy_externally_at'[s] = {now[c]}
                       ELSE probe_result[c] = "free" /\ busy_externally_at'[s] = {}
         ]_vars

\* A caller is about to clear busy_externally_at of a client after a free busy check
\* while another caller reads the one of the other client in is_externally_blocked.
C18_Witness ==
    \E c, d \in Callers :
        /\ pc[c] = "probed"
        /\ probe_result[c] = "free"
        /\ busy_externally_at[index[c]] # {}
        /\ pc[d] = "extheld"
        /\ ext_index[d] # index[c]

\* This step is a step of caller c inside is_externally_blocked.
ExtStep(c) == InExt(c) /\ <<pc[c], ext_index[c]>>' # <<pc[c], ext_index[c]>>

\* C19: is_externally_blocked changes no busy_externally_at and not the active counter;
\* it holds at most one client lock at a time, the one it inspects, none while it tries
\* the next one and none when it returns.
C19_ExternallyBlockedFrame ==
    /\ [](\A c \in Callers :
            /\ pc[c] = "ext" => Held(c) = {}
            /\ pc[c] = "extheld" => Held(c) = {ext_index[c]})
    /\ [][\A c \in Callers :
            ExtStep(c) =>
                /\ busy_externally_at' = busy_externally_at
                /\ active' = active
                /\ ExtReturns(c) => \A s \in AllClients : lock'[s] # c
         ]_vars

\* is_externally_blocked inspects the second client, having released the first one,
\* which is marked busy, while a conversion is counted.
C19_Witness ==
    \E c \in Callers :
        /\ pc[c] = "extheld"
        /\ ext_index[c] = 2
        /\ Held(c) = {2}
        /\ busy_externally_at[1] # {}
        /\ active_counter[c] = 1

\* Some call was dropped.
SomeDropped == \E c \in Callers : pc[c] = "dropped"

\* C20: when a call is dropped at an await point (also during the busy check or the
\* conversion) the client lock it held is released, and the active counter afterwards
\* still equals the number of conversions in progress.
C20_DroppedCallKeepsCount ==
    SomeDropped =>
        /\ \A c \in Callers : pc[c] = "dropped" => Held(c) = {}
        /\ active = Cardinality(Converting) + Cardinality(AtDecrement)

\* The requests whose Convert message the runner has taken and not yet answered.
Unanswered ==
    {r \in Requests :
        /\ handler[r] = "await"
        /\ converted[r] = "none"
        /\ \A i \in 1..Len(channel) : channel[i].tx # r}

\* C21: the office runner handles one message at a time, in the order of the channel:
\* it takes the oldest buffered message, and only when it has finished the one before.
\* Every Convert message it takes gets exactly one result on its oneshot; at most one
\* conversion is in progress; runner_state is back at its default after each
\* conversion; CollectGarbage and BusyCheck get no reply and start no conversion.
C21_RunnerSerialises ==
    /\ [](/\ Cardinality(Unanswered) <= 1
          /\ Unanswered = (IF runner = "convert" THEN {output} ELSE {})
          /\ runner # "convert" => (output = NoRequest /\ ~password_requested)
          /\ \A r \in Requests : converted[r] # "none" => route[r] = "convert")
    /\ [][/\ channel' # channel /\ Len(channel') < Len(channel) =>
                /\ runner = "recv"
                /\ channel' = Tail(channel)
                /\ runner' = Dispatch(Head(channel).msg)
                /\ Head(channel).msg = "Convert" =>
                      (output' = Head(channel).tx /\ converted' = converted)
                /\ Head(channel).msg \in {"CollectGarbage", "BusyCheck"} =>
                      (output' = NoRequest /\ converted' = converted /\ runner' # "convert")
          /\ \A r \in Requests :
                converted'[r] # converted[r] =>
                    /\ converted[r] = "none"
                    /\ runner = "convert" /\ output = r
                    /\ runner' = "recv" /\ output' = NoRequest
                    /\ ~password_requested'
       ]_vars
    /\ \A r \in Requests : (handler[r] = "await") ~> (converted[r] # "none")

\* A failed conversion has been answered and the handler of /convert has returned, a
\* CollectGarbage and a BusyCheck message went through the runner without a reply,
\* and the runner is back in blocking_recv with its state at the default.
C21_Witness ==
    \E r, g, b \in Requests :
        /\ handler[r] = "done" /\ converted[r] = "err"
        /\ route[g] = "collect_garbage" /\ handler[g] = "done"
        /\ is_busy[b] = {FALSE}
        /\ channel = <<>>
        /\ runner = "recv"
        /\ ~password_requested

====
